---- MODULE Spec2Model ----
(***************************************************************************)
(* Internship Tracker: the work-hour accrual of src/utils.ts               *)
(* (calculateDayHours, getInternshipStats) as a state machine.  One call   *)
(* of getInternshipStats is a run: the inputs are drawn in Init, every     *)
(* iteration of the day-by-day loop is one step, and the returned Stats    *)
(* record is the variable result.  The CSV Table download of the report    *)
(* (generateCSV) is a step after the call.  The App component of           *)
(* src/unnamed/part_000 is a second state machine over the same module:    *)
(* its six persisted fields are the variable config, edited by the         *)
(* handlers of the UI, exported by Data Backup and replaced by             *)
(* handleImportBackup.                                                     *)
(*                                                                         *)
(* A Date is a calendar day at local midnight, modelled as the number of   *)
(* days since 1970-01-01.  A date key ('yyyy-MM-dd') is the triple         *)
(* <<year, month, day>>.                                                   *)
(***************************************************************************)
EXTENDS Integers, Sequences, FiniteSets, TLC

VARIABLES
    goal,              \* argument goal
    startDate,         \* argument startDate (NoDate = null, InvalidDate = Invalid Date)
    adjustments,       \* argument adjustments: date key -> DayAdjustment
    mode,              \* argument mode
    excludedDays,      \* argument excludedDays (an array of weekday numbers)
    excludeHolidays,   \* argument excludeHolidays
    pc,                \* position inside getInternshipStats
    accumulated,       \* let accumulated
    checkDate,         \* let checkDate
    daysProcessed,     \* let daysProcessed
    estimatedEndDate,  \* let estimatedEndDate
    workDaysToGoal,    \* let workDaysToGoal
    workDays,          \* const workDays
    result,            \* the returned Stats (NoStats until the call returns)
    dayHours,          \* the value returned by a call of calculateDayHours on its own
    csv,               \* the downloaded internship-report.csv (NoCsv until downloaded)
    config,            \* App state: goal, startDateStr, adjustments, mode, excludedDays,
                       \* excludeHolidays
    selectedDate,      \* App state: selectedDate (NoDate = null)
    download,          \* the backup file written by Data Backup and not yet restored
    file,              \* the file chosen in Restore Backup whose read is pending
    alert,             \* the alert() shown by handleImportBackup and not yet dismissed
    isDragging,        \* App state: isDragging
    dragStart,         \* App state: dragStart (NoDate = null)
    dragSelection,     \* App state: dragSelection (a set of date keys)
    dragMode           \* App state: dragMode

inputs == <<goal, startDate, adjustments, mode, excludedDays, excludeHolidays>>
locals == <<accumulated, checkDate, daysProcessed, estimatedEndDate, workDaysToGoal, workDays>>
dragVars == <<isDragging, dragStart, dragSelection, dragMode>>
appVars == <<config, selectedDate, download, file, alert, isDragging, dragStart,
             dragSelection, dragMode>>
callVars == <<goal, startDate, adjustments, mode, excludedDays, excludeHolidays, pc,
              accumulated, checkDate, daysProcessed, estimatedEndDate, workDaysToGoal,
              workDays, result, dayHours, csv>>
vars == <<goal, startDate, adjustments, mode, excludedDays, excludeHolidays, pc,
          accumulated, checkDate, daysProcessed, estimatedEndDate, workDaysToGoal,
          workDays, result, dayHours, csv, config, selectedDate, download, file, alert,
          isDragging, dragStart, dragSelection, dragMode>>

(***************************************************************************)
(* Bounds of the explored inputs.                                          *)
(***************************************************************************)
MaxOvertime == 2
MaxGoalDays == 2
MaxWeekGoalDays == 5

(***************************************************************************)
(* Program constants.                                                      *)
(***************************************************************************)
safetyLimit == 3000
AutoBufferDays == 730
ManualQuietDays == 365
BaseHours == 8

NoDate == -1
InvalidDate == -2
NoStats == [returned |-> FALSE]

(***************************************************************************)
(* Dates.                                                                  *)
(***************************************************************************)
\* getDay: 0 = Sunday .. 6 = Saturday (1970-01-01 was a Thursday).
getDay(date) == (date + 4) % 7

\* Variant: only Sunday is a weekend day.
isWeekend_SundayOnly(date) == getDay(date) = 0

isWeekend(date) == getDay(date) \in {0, 6}

isValid(date) == date >= 0

startOfDay(date) == date

addDays(date, n) == date + n

\* Variant: the day count excludes the earlier day.
differenceInDays_Exclusive(later, earlier) == later - earlier - 1

differenceInDays(later, earlier) == later - earlier

\* The civil date <<year, month, day>> of a day number (proleptic Gregorian).
CivilFromDays(z) ==
    LET s    == z + 719468
        era  == s \div 146097
        doe  == s - era * 146097
        yoe  == (doe - (doe \div 1460) + (doe \div 36524) - (doe \div 146096)) \div 365
        doy  == doe - (365 * yoe + (yoe \div 4) - (yoe \div 100))
        mp   == (5 * doy + 2) \div 153
        d    == doy - ((153 * mp + 2) \div 5) + 1
        m    == IF mp < 10 THEN mp + 3 ELSE mp - 9
        y    == yoe + era * 400 + (IF m <= 2 THEN 1 ELSE 0)
    IN  <<y, m, d>>

\* format(date, 'yyyy-MM-dd')
getDateKey(date) == CivilFromDays(date)

\* parseISO('yyyy-MM-dd'): the day number of a date key (local midnight of that day).
parseISO(key) ==
    LET y   == IF key[2] <= 2 THEN key[1] - 1 ELSE key[1]
        era == y \div 400
        yoe == y - era * 400
        mp  == IF key[2] > 2 THEN key[2] - 3 ELSE key[2] + 9
        doy == ((153 * mp + 2) \div 5) + key[3] - 1
        doe == yoe * 365 + (yoe \div 4) - (yoe \div 100) + doy
    IN  era * 146097 + doe - 719468

MonthNames == <<"January", "February", "March", "April", "May", "June", "July",
                "August", "September", "October", "November", "December">>

OrdinalSuffix(d) ==
    IF d % 100 \in {11, 12, 13} THEN "th"
    ELSE IF d % 10 = 1 THEN "st"
    ELSE IF d % 10 = 2 THEN "nd"
    ELSE IF d % 10 = 3 THEN "rd"
    ELSE "th"

\* format(date, 'MMMM do, yyyy'), as its parts.
FormatLong(date) ==
    LET k == CivilFromDays(date)
    IN  [month |-> MonthNames[k[2]], day |-> k[3], suffix |-> OrdinalSuffix(k[3]),
         year |-> k[1]]

(***************************************************************************)
(* Philippine 2026 holidays.                                               *)
(***************************************************************************)
PH_HOLIDAYS_2026 ==
    << [date |-> <<2026, 1, 1>>,   name |-> "New Year's Day",   type |-> "regular"],
       [date |-> <<2026, 4, 2>>,   name |-> "Maundy Thursday",  type |-> "regular"],
       [date |-> <<2026, 4, 3>>,   name |-> "Good Friday",      type |-> "regular"],
       [date |-> <<2026, 4, 9>>,   name |-> "Day of Valor (Araw ng Kagitingan)", type |-> "regular"],
       [date |-> <<2026, 5, 1>>,   name |-> "Labor Day",        type |-> "regular"],
       [date |-> <<2026, 6, 12>>,  name |-> "Independence Day", type |-> "regular"],
       [date |-> <<2026, 8, 31>>,  name |-> "National Heroes Day", type |-> "regular"],
       [date |-> <<2026, 11, 30>>, name |-> "Bonifacio Day",    type |-> "regular"],
       [date |-> <<2026, 12, 25>>, name |-> "Christmas Day",    type |-> "regular"],
       [date |-> <<2026, 12, 30>>, name |-> "Rizal Day",        type |-> "regular"],
       [date |-> <<2026, 2, 17>>,  name |-> "Chinese New Year", type |-> "special"],
       [date |-> <<2026, 4, 4>>,   name |-> "Black Saturday",   type |-> "special"],
       [date |-> <<2026, 8, 21>>,  name |-> "Ninoy Aquino Day", type |-> "special"],
       [date |-> <<2026, 11, 1>>,  name |-> "All Saints' Day",  type |-> "special"],
       [date |-> <<2026, 11, 2>>,  name |-> "All Souls' Day",   type |-> "special"],
       [date |-> <<2026, 12, 8>>,  name |-> "Feast of the Immaculate Conception of Mary", type |-> "special"],
       [date |-> <<2026, 12, 24>>, name |-> "Christmas Eve",    type |-> "special"],
       [date |-> <<2026, 12, 31>>, name |-> "Last Day of the Year", type |-> "special"] >>

\* Variant: only the holidays of type 'regular' are found.
isHoliday_RegularOnly(date) ==
    LET key   == getDateKey(date)
        found == {i \in 1..Len(PH_HOLIDAYS_2026) :
                     PH_HOLIDAYS_2026[i].date = key /\ PH_HOLIDAYS_2026[i].type = "regular"}
    IN  IF found # {}
        THEN LET holiday == PH_HOLIDAYS_2026[CHOOSE i \in found : \A j \in found : i <= j]
             IN  [isHoliday |-> TRUE, name |-> holiday.name, type |-> holiday.type]
        ELSE [isHoliday |-> FALSE]

isHoliday(date) ==
    LET key   == getDateKey(date)
        found == {i \in 1..Len(PH_HOLIDAYS_2026) : PH_HOLIDAYS_2026[i].date = key}
    IN  IF found # {}
        THEN LET holiday == PH_HOLIDAYS_2026[CHOOSE i \in found : \A j \in found : i <= j]
             IN  [isHoliday |-> TRUE, name |-> holiday.name, type |-> holiday.type]
        ELSE [isHoliday |-> FALSE]

(***************************************************************************)
(* calculateDayHours                                                       *)
(***************************************************************************)
\* adjustments[key] is truthy
HasAdjustment(adj, key) == key \in DOMAIN adj

Includes(arr, x) == \E i \in 1..Len(arr) : arr[i] = x

\* Variant: the holiday table is consulted before the override.
calculateDayHours_HolidayFirst(date, adj, m, excl, exclHol) ==
    LET key == getDateKey(date)
    IN  IF exclHol /\ isHoliday(date).isHoliday THEN 0
        ELSE IF HasAdjustment(adj, key)
        THEN IF adj[key].status = "off" THEN 0 ELSE BaseHours + adj[key].overtime
        ELSE IF m = "automatic" /\ ~Includes(excl, getDay(date)) /\ ~isWeekend(date)
        THEN BaseHours
        ELSE 0

\* Variant: overtime shortens the day of a work override.
calculateDayHours_OvertimeShortens(date, adj, m, excl, exclHol) ==
    LET key == getDateKey(date)
    IN  IF HasAdjustment(adj, key)
        THEN IF adj[key].status = "off" THEN 0 ELSE BaseHours - adj[key].overtime
        ELSE IF exclHol /\ isHoliday(date).isHoliday THEN 0
        ELSE IF m = "automatic"
             THEN IF Includes(excl, getDay(date)) THEN 0
                  ELSE IF isWeekend(date) THEN 0 ELSE BaseHours
        ELSE 0

calculateDayHours(date, adj, m, excl, exclHol) ==
    LET key == getDateKey(date)
    IN  IF HasAdjustment(adj, key)
        THEN IF adj[key].status = "off" THEN 0 ELSE BaseHours + adj[key].overtime
        ELSE IF exclHol /\ isHoliday(date).isHoliday THEN 0
        ELSE IF m = "automatic"
             THEN IF Includes(excl, getDay(date)) THEN 0
                  ELSE IF isWeekend(date) THEN 0 ELSE BaseHours
        ELSE 0

(***************************************************************************)
(* getInternshipStats: the conditions of the loop.                         *)
(***************************************************************************)
\* Variant: the ceiling admits one more iteration.
LoopContinues_OneMore(dp) == dp <= safetyLimit

\* while (daysProcessed < safetyLimit)
LoopContinues(dp) == dp < safetyLimit

\* Variant: negative hours count as work too.
CountsAsWork_NonZero(hours) == hours # 0

\* if (hours > 0)
CountsAsWork(hours) == hours > 0

\* Variant: the goal counts as reached only when exceeded.
GoalReached_Strict(acc, g) == acc > g

\* accumulated >= goal
GoalReached(acc, g) == acc >= g

\* Variant: automatic mode still accumulates at accumulated = goal.
AutoAccumulates_AtGoal(acc, g) == acc <= g

\* automatic mode: if (accumulated < goal)
AutoAccumulates(acc, g) == acc < g

\* automatic mode: if (accumulated <= goal) workDays.push(...)
AutoRecords(acc, g) == acc <= g

\* manual mode: if (accumulated <= goal) workDaysToGoal++
ManualCountsToGoal(acc, g) == acc <= g

\* if (mode === 'automatic' && accumulated >= goal && daysProcessed > 730) break
AutoStops(m, acc, g, dp) == m = "automatic" /\ GoalReached(acc, g) /\ dp > AutoBufferDays

\* if (mode === 'manual' && accumulated >= goal && !hasManual && daysProcessed > 365) break
ManualStops(m, acc, g, hasManual, dp) ==
    m = "manual" /\ GoalReached(acc, g) /\ ~hasManual /\ dp > ManualQuietDays

WorkDay(date, hours) == [date |-> date, hours |-> hours]

Locals(acc, wd, wdToGoal, endDate) ==
    [accumulated |-> acc, workDays |-> wd, workDaysToGoal |-> wdToGoal,
     estimatedEndDate |-> endDate]

\* else { if (accumulated < goal) {...} if (accumulated <= goal) {...} }
AccumulateAutomatic(g, date, hours, acc, wd, wdToGoal, endDate) ==
    LET adds == AutoAccumulates(acc, g)
        acc1 == IF adds THEN acc + hours ELSE acc
    IN  Locals(acc1,
               IF AutoRecords(acc1, g) THEN Append(wd, WorkDay(date, hours)) ELSE wd,
               IF adds THEN wdToGoal + 1 ELSE wdToGoal,
               IF adds /\ GoalReached(acc1, g) /\ endDate = NoDate THEN date ELSE endDate)

\* Variant: manual mode capped at the goal like automatic mode.
AccumulateManual_AsAutomatic(g, date, hours, acc, wd, wdToGoal, endDate) ==
    AccumulateAutomatic(g, date, hours, acc, wd, wdToGoal, endDate)

\* if (mode === 'manual') { accumulated += hours; workDays.push(...); ... }
AccumulateManual(g, date, hours, acc, wd, wdToGoal, endDate) ==
    LET acc1 == acc + hours
    IN  Locals(acc1,
               Append(wd, WorkDay(date, hours)),
               IF ManualCountsToGoal(acc1, g) THEN wdToGoal + 1 ELSE wdToGoal,
               IF GoalReached(acc1, g) /\ endDate = NoDate THEN date ELSE endDate)

\* The locals after the accumulation block of one iteration (if (hours > 0) {...}).
AccumulateDay(m, g, date, hours, acc, wd, wdToGoal, endDate) ==
    IF ~CountsAsWork(hours) THEN Locals(acc, wd, wdToGoal, endDate)
    ELSE IF m = "manual" THEN AccumulateManual(g, date, hours, acc, wd, wdToGoal, endDate)
    ELSE AccumulateAutomatic(g, date, hours, acc, wd, wdToGoal, endDate)

\* calculateDayHours(checkDate, adjustments, mode, excludedDays, excludeHolidays)
HoursToday == calculateDayHours(checkDate, adjustments, mode, excludedDays, excludeHolidays)

\* const hasManual = !!adjustments[key]
HasManualToday == HasAdjustment(adjustments, getDateKey(checkDate))

\* The accumulation block applied to the current locals.
DayEffect ==
    \E n \in {AccumulateDay(mode, goal, checkDate, HoursToday, accumulated, workDays,
                           workDaysToGoal, estimatedEndDate)} :
        /\ accumulated' = n.accumulated
        /\ workDays' = n.workDays
        /\ workDaysToGoal' = n.workDaysToGoal
        /\ estimatedEndDate' = n.estimatedEndDate

(***************************************************************************)
(* getInternshipStats: the returned records.                               *)
(***************************************************************************)
Frac(n, d) == [num |-> n, den |-> d]

\* goal > 0 ? Math.min(100, (accumulated / goal) * 100) : 0, as an exact fraction
Progress(acc, g) ==
    IF g > 0
    THEN IF acc * 100 >= 100 * g THEN Frac(100, 1) ELSE Frac(acc * 100, g)
    ELSE Frac(0, 1)

\* Variant: the smaller of the two.
Max_Smaller(a, b) == IF a >= b THEN b ELSE a

Max(a, b) == IF a >= b THEN a ELSE b

\* Variant: the goal reported as accumulated.
EmptyStats_GoalAccumulated(g) ==
    [totalGoal              |-> g,
     accumulatedTowardsGoal |-> g,
     remaining              |-> g,
     progressPercentage     |-> Frac(0, 1),
     estimatedEndDate       |-> NoDate,
     estimatedEndDateStr    |-> "Set start date",
     workDaysCount          |-> 0,
     totalCalendarDays      |-> 0,
     workDays               |-> <<>>]

\* return { totalGoal: goal, accumulatedTowardsGoal: 0, remaining: goal, ... }
EmptyStats(g) ==
    [totalGoal              |-> g,
     accumulatedTowardsGoal |-> 0,
     remaining              |-> g,
     progressPercentage     |-> Frac(0, 1),
     estimatedEndDate       |-> NoDate,
     estimatedEndDateStr    |-> "Set start date",
     workDaysCount          |-> 0,
     totalCalendarDays      |-> 0,
     workDays               |-> <<>>]

Stats(g, start, acc, endDate, wdToGoal, wd) ==
    LET exceeded == acc > g
    IN  [totalGoal              |-> g,
         accumulatedTowardsGoal |-> acc,
         remaining              |-> Max(0, g - acc),
         progressPercentage     |-> Progress(acc, g),
         exceeded               |-> exceeded,
         excessHours            |-> IF exceeded THEN acc - g ELSE 0,
         estimatedEndDate       |-> endDate,
         estimatedEndDateStr    |-> IF endDate # NoDate THEN FormatLong(endDate)
                                    ELSE IF g > 0 THEN "Goal not reached" ELSE "Set goal",
         workDaysCount          |-> wdToGoal,
         totalCalendarDays      |-> IF endDate # NoDate
                                    THEN differenceInDays(endDate, start) + 1 ELSE 0,
         workDays               |-> wd]

(***************************************************************************)
(* The explored inputs.                                                    *)
(***************************************************************************)
Jan01 == parseISO(<<2026, 1, 1>>)   \* Thursday, New Year's Day
Jan05 == parseISO(<<2026, 1, 5>>)   \* Monday
Feb01 == parseISO(<<2026, 2, 1>>)   \* Sunday

Goals == {-8, 0, 10} \cup {BaseHours * k : k \in 1..MaxGoalDays}

Work(ot) == [status |-> "work", overtime |-> ot]
Off == [status |-> "off", overtime |-> 0]

NoAdjustments == << >>

\* One work override on 2026-02-03, with each overtime.
OneWorkDay == {(getDateKey(Feb01 + 2) :> Work(ot)) : ot \in 0..MaxOvertime}

\* The first Monday off, the Saturday after it worked.
OffAndWeekend == (getDateKey(Jan05) :> Off) @@ (getDateKey(Jan05 + 5) :> Work(1))

\* An entry whose overtime is negative (a restored backup may hold one).
NegativeOvertime == (getDateKey(Jan05 + 1) :> Work(-9))

\* Work overrides early, near the end of the first year and after it.
LateOverrides ==
    (getDateKey(Feb01 + 2) :> Work(0)) @@ (getDateKey(Feb01 + 360) :> Work(0))
        @@ (getDateKey(Feb01 + 400) :> Work(2))

\* One work override more than two years after 2026-01-05.
FarWorkDay == (getDateKey(Jan05 + 800) :> Work(0))

\* An entry that carries a diary log (a string, modelled as its sequence of characters).
Logged(entry, text) == [status |-> entry.status, overtime |-> entry.overtime, log |-> text]

\* Overrides with diary logs from 2026-01-01 on: New Year's Day worked with one hour
\* of overtime, the Friday worked (its log holds a comma and a quote), the Saturday
\* worked without a log, the Monday off with a log.
DiaryDays ==
    (getDateKey(Jan01) :> Logged(Work(1), <<"N", "Y">>))
        @@ (getDateKey(Jan01 + 1) :> Logged(Work(0), <<"a", ",", "\"", "b">>))
        @@ (getDateKey(Jan01 + 2) :> Work(0))
        @@ (getDateKey(Jan05) :> Logged(Off, <<"s", "i", "c", "k">>))

DiaryInputs ==
    [goal : {3 * BaseHours}, startDate : {Jan01}, adjustments : {DiaryDays},
     mode : {"manual", "automatic"}, excludedDays : {<<0, 6>>}, excludeHolidays : BOOLEAN]

\* Automatic mode without overrides: goals of one to MaxWeekGoalDays days of work, from
\* a Thursday (a holiday), a Monday and a Sunday.
WeekInputs ==
    [goal : {BaseHours * k : k \in 1..MaxWeekGoalDays}, startDate : {Jan01, Jan05, Feb01},
     adjustments : {NoAdjustments}, mode : {"automatic"}, excludedDays : {<<0, 6>>},
     excludeHolidays : BOOLEAN]

AutoInputs ==
    [goal : Goals, startDate : {Jan01, Jan05}, adjustments : {NoAdjustments, OffAndWeekend,
        NegativeOvertime}, mode : {"automatic"}, excludedDays : {<<0, 6>>, << >>},
     excludeHolidays : BOOLEAN]
    \cup
    [goal : {BaseHours}, startDate : {Jan05},
     adjustments : {NoAdjustments, OffAndWeekend, FarWorkDay},
     mode : {"automatic"}, excludedDays : {<<0, 1, 2, 3, 4, 5, 6>>}, excludeHolidays : {TRUE}]

ManualInputs ==
    [goal : Goals, startDate : {Jan05, Feb01},
     adjustments : {NoAdjustments, OffAndWeekend, NegativeOvertime, LateOverrides} \cup OneWorkDay,
     mode : {"manual"}, excludedDays : {<<0, 6>>}, excludeHolidays : {TRUE}]

NoStartInputs ==
    [goal : Goals, startDate : {NoDate, InvalidDate}, adjustments : {NoAdjustments} \cup OneWorkDay,
     mode : {"manual", "automatic"}, excludedDays : {<<0, 6>>}, excludeHolidays : BOOLEAN]

Inputs == AutoInputs \cup ManualInputs \cup NoStartInputs \cup DiaryInputs
              \cup WeekInputs

\* The inputs of the runs under fairness: goals that are never reached (every weekday
\* excluded, manual mode without work overrides), no goal, and no start date.
TerminationInputs ==
    [goal : {0, BaseHours}, startDate : {Jan05}, adjustments : {NoAdjustments},
     mode : {"manual", "automatic"}, excludedDays : {<<0, 1, 2, 3, 4, 5, 6>>},
     excludeHolidays : {TRUE}]
    \cup
    [goal : {BaseHours}, startDate : {NoDate}, adjustments : {NoAdjustments},
     mode : {"automatic"}, excludedDays : {<<0, 6>>}, excludeHolidays : {TRUE}]

(***************************************************************************)
(* generateCSV.  A string that the code takes apart (a diary log) is the   *)
(* sequence of its characters; a CSV line is the record of its five        *)
(* comma-separated fields, the last of which is the escaped log as written.*)
(***************************************************************************)
DayNames ==
    <<"Sunday", "Monday", "Tuesday", "Wednesday", "Thursday", "Friday", "Saturday">>

\* The value undefined where a log string is expected.
undefined == <<"undefined">>

\* adjustments[key]?.log || ''
LogOf(adj, key) ==
    IF HasAdjustment(adj, key) /\ "log" \in DOMAIN adj[key] /\ adj[key].log # undefined
    THEN adj[key].log
    ELSE << >>

\* log.includes(',') || log.includes('\n') || log.includes('"')
NeedsQuotes(log) == \E i \in 1..Len(log) : log[i] \in {",", "\n", "\""}

\* log.replace(/"/g, '""')
RECURSIVE DoubleQuotes(_)
DoubleQuotes(log) ==
    IF log = << >> THEN << >>
    ELSE (IF Head(log) = "\"" THEN <<"\"", "\"">> ELSE <<Head(log)>>) \o DoubleQuotes(Tail(log))

escapedLog(log) ==
    IF NeedsQuotes(log) THEN <<"\"">> \o DoubleQuotes(log) \o <<"\"">> ELSE log

\* `${dateStr},${dayName},${wd.hours},Work,${escapedLog}`
CsvRow(wd, adj) ==
    [dateStr    |-> getDateKey(wd.date),
     dayName    |-> DayNames[getDay(wd.date) + 1],
     hours      |-> wd.hours,
     status     |-> "Work",
     escapedLog |-> escapedLog(LogOf(adj, getDateKey(wd.date)))]

generateCSV(wds, adj) ==
    [header |-> <<"Date", "Day", "Hours", "Status", "Daily Log">>,
     rows   |-> [i \in 1..Len(wds) |-> CsvRow(wds[i], adj)]]

NoCsv == [header |-> << >>, rows |-> << >>]

(***************************************************************************)
(* The App component: its values.  A JavaScript value of the persisted     *)
(* state or of a parsed backup is a record of its kind t and its payload   *)
(* v; Infinity is a number of its own kind.  The entries of the override   *)
(* map are the DayAdjustment records of the accrual above.                 *)
(***************************************************************************)
JSUndefined == [t |-> "undefined", v |-> 0]
JSNull == [t |-> "null", v |-> 0]
JSInfinity == [t |-> "infinity", v |-> 0]
JSBoolean(b) == [t |-> "boolean", v |-> b]
JSNumber(n) == [t |-> "number", v |-> n]
JSString(str) == [t |-> "string", v |-> str]
JSArray(arr) == [t |-> "array", v |-> arr]
JSObject(obj) == [t |-> "object", v |-> obj]

\* typeof x
typeof(x) ==
    IF x.t \in {"null", "array", "object"} THEN "object"
    ELSE IF x.t = "infinity" THEN "number"
    ELSE x.t

\* x === y, for primitives
StrictEquals(x, y) == x.t = y.t /\ x.v = y.v

\* Array.isArray(x)
IsArray(x) == x.t = "array"

\* x ?? y
NullishCoalesce(x, y) == IF x.t \in {"null", "undefined"} THEN y ELSE x

\* The truth value of x in a condition.
Truthy(x) ==
    IF x.t \in {"null", "undefined"} THEN FALSE
    ELSE IF x.t = "boolean" THEN x.v
    ELSE IF x.t = "number" THEN x.v # 0
    ELSE IF x.t = "string" THEN x.v # ""
    ELSE TRUE

\* The state of a first run (nothing saved): the useState initialisers.
DefaultConfig ==
    [goal            |-> JSString(""),
     startDateStr    |-> JSString(""),
     adjustments     |-> JSObject(NoAdjustments),
     mode            |-> JSString("automatic"),
     excludedDays    |-> JSArray(<<0, 6>>),
     excludeHolidays |-> JSBoolean(TRUE)]

\* The values of the date input, with the date key each one spells.
DateStrings == ("2026-01-05" :> <<2026, 1, 5>>)

\* const startDate = useMemo(...): null without a string or for an invalid date
startDateMemo(cfg) ==
    IF ~Truthy(cfg.startDateStr) THEN NoDate
    ELSE IF cfg.startDateStr.v \in DOMAIN DateStrings
         THEN parseISO(DateStrings[cfg.startDateStr.v])
         ELSE NoDate

\* The App renders: every day cell reads adjustments[key], which throws on null.
Renders(cfg) == cfg.adjustments.t # "null"

\* getDayDisplayHours(date)
getDayDisplayHours(cfg, date) ==
    calculateDayHours(date, cfg.adjustments.v, cfg.mode.v, cfg.excludedDays.v,
                      Truthy(cfg.excludeHolidays))

\* getDayLog(date)
getDayLog(cfg, date) == LogOf(cfg.adjustments.v, getDateKey(date))

\* The locals of getInternshipStats after the days from day to last, from locals n.
RECURSIVE WalkDays(_, _, _, _, _)
WalkDays(cfg, g, day, last, n) ==
    IF day > last THEN n
    ELSE WalkDays(cfg, g, day + 1, last,
                  AccumulateDay(cfg.mode.v, g, day, getDayDisplayHours(cfg, day),
                                n.accumulated, n.workDays, n.workDaysToGoal,
                                n.estimatedEndDate))

\* mode === 'automatic' && stats.estimatedEndDate && isAfter(date, stats.estimatedEndDate).
\* The loop assigns estimatedEndDate once, on the day that crosses the goal, so the
\* end date precedes date exactly when the days before date assign it; an infinite
\* goal is never crossed.
isAfterEnd(cfg, date) ==
    /\ cfg.mode.v = "automatic"
    /\ startDateMemo(cfg) # NoDate
    /\ cfg.goal.t # "infinity"
    /\ WalkDays(cfg, IF cfg.goal.t = "number" THEN cfg.goal.v ELSE 0,
                startDateMemo(cfg), date - 1, Locals(0, << >>, 0, NoDate)).estimatedEndDate
           # NoDate

\* const isDisabled = isBeforeStart || isAfterEnd
isDisabled(cfg, date) ==
    \/ startDateMemo(cfg) # NoDate /\ date < startDateMemo(cfg)
    \/ isAfterEnd(cfg, date)

\* The Customizing panel of the selected day is rendered.
PanelShown(cfg, date) ==
    /\ date # NoDate
    /\ startDateMemo(cfg) # NoDate
    /\ ~(date < startDateMemo(cfg))
    /\ ~isAfterEnd(cfg, date)

\* logInput.trim()
Whitespace == {" ", "\n", "\t"}

RECURSIVE TrimStart(_)
TrimStart(str) ==
    IF str # << >> /\ Head(str) \in Whitespace THEN TrimStart(Tail(str)) ELSE str

RECURSIVE TrimEnd(_)
TrimEnd(str) ==
    IF str # << >> /\ str[Len(str)] \in Whitespace
    THEN TrimEnd(SubSeq(str, 1, Len(str) - 1))
    ELSE str

trim(str) == TrimEnd(TrimStart(str))

\* prev[key] || { status: getDayDisplayHours(date) > 0 ? 'work' : 'off', overtime: 0 }
CurrentEntry(cfg, date) ==
    IF HasAdjustment(cfg.adjustments.v, getDateKey(date))
    THEN cfg.adjustments.v[getDateKey(date)]
    ELSE [status |-> IF getDayDisplayHours(cfg, date) > 0 THEN "work" ELSE "off",
          overtime |-> 0]

\* { ...prev, [key]: entry }
WithEntry(cfg, date, entry) ==
    [cfg EXCEPT !.adjustments =
        JSObject((getDateKey(date) :> entry) @@ cfg.adjustments.v)]

\* { ...current, log: logInput.trim() || undefined }
WithLog(entry, logInput) ==
    Logged(entry, IF trim(logInput) # << >> THEN trim(logInput) ELSE undefined)

\* const { log, ...rest } = current
WithoutLog(entry) == [status |-> entry.status, overtime |-> entry.overtime]

\* Variant: the overtime is not kept at zero or above.
OvertimeEntry_Unclamped(current, delta) ==
    LET newStatus   == IF current.status = "off" /\ delta > 0 THEN "work" ELSE current.status
        newOvertime == current.overtime + delta
    IN  IF "log" \in DOMAIN current
        THEN [status |-> newStatus, overtime |-> newOvertime, log |-> current.log]
        ELSE [status |-> newStatus, overtime |-> newOvertime]

\* updateOvertime: the new entry of the day.
OvertimeEntry(current, delta) ==
    LET newStatus   == IF current.status = "off" /\ delta > 0 THEN "work" ELSE current.status
        newOvertime == Max(0, current.overtime + delta)
    IN  IF "log" \in DOMAIN current
        THEN [status |-> newStatus, overtime |-> newOvertime, log |-> current.log]
        ELSE [status |-> newStatus, overtime |-> newOvertime]

\* eachDayOfInterval({ start, end }) with start and end the earlier and the later of
\* dragStart and date, as the set of the date keys
DragRange(start, date) ==
    LET first == IF start < date THEN start ELSE date
        last  == IF start > date THEN start ELSE date
    IN  {getDateKey(d) : d \in first..last}

\* { status: dragMode, overtime: prev[key]?.overtime || 0 }
DragEntry(prev, key, status) ==
    [status   |-> status,
     overtime |-> IF HasAdjustment(prev, key) /\ "overtime" \in DOMAIN prev[key]
                     /\ prev[key].overtime # 0
                  THEN prev[key].overtime ELSE 0]

\* const next = { ...prev }; dragSelection.forEach(key => { next[key] = {...} })
Painted(prev, selection, status) ==
    [key \in DOMAIN prev \cup selection |->
        IF key \in selection THEN DragEntry(prev, key, status) ELSE prev[key]]

\* prev.includes(day) ? prev.filter(d => d !== day) : [...prev, day]
toggleExcludedDay(prev, day) ==
    IF Includes(prev, day) THEN SelectSeq(prev, LAMBDA d : d # day) ELSE Append(prev, day)

(***************************************************************************)
(* Backup files.  A file is what JSON.parse makes of its text: a syntax    *)
(* error, or the parsed value.  JSON.stringify writes the text that parses *)
(* to the value without its undefined properties and with null for a       *)
(* number that is not finite.                                              *)
(***************************************************************************)
NoFile == [text |-> "none"]

UnparsableFile == [text |-> "not json"]

JsonFile(value) == [text |-> "json", data |-> value]

\* The entry as JSON.stringify writes it: a property whose value is undefined is left out.
StringifyEntry(entry) ==
    IF "log" \in DOMAIN entry /\ entry.log = undefined
    THEN [status |-> entry.status, overtime |-> entry.overtime]
    ELSE entry

\* The value of one field of the backup as JSON.stringify writes it.
StringifyField(x) ==
    IF x.t = "infinity" THEN JSNull
    ELSE IF x.t = "object" THEN JSObject([key \in DOMAIN x.v |-> StringifyEntry(x.v[key])])
    ELSE x

\* JSON.stringify({ goal, startDateStr, adjustments, mode, excludedDays, excludeHolidays })
JSONStringify(cfg) ==
    JsonFile(JSObject([field \in {f \in DOMAIN cfg : cfg[f].t # "undefined"}
                          |-> StringifyField(cfg[field])]))

\* data.<field>: undefined when data has no such property (a TypeError for null data is
\* raised by handleImportBackup before any field is read).
Property(data, field) ==
    IF data.t = "object" /\ field \in DOMAIN data.v THEN data.v[field] ELSE JSUndefined

\* The checks of handleImportBackup, in order: the first failing one, or "" when none fails.
ValidationError(data) ==
    IF typeof(Property(data, "goal")) # "number"
           /\ ~StrictEquals(Property(data, "goal"), JSString(""))
    THEN "Invalid goal format"
    ELSE IF typeof(Property(data, "startDateStr")) # "string"
    THEN "Invalid start date format"
    ELSE IF typeof(Property(data, "adjustments")) # "object"
    THEN "Invalid adjustments format"
    ELSE IF ~StrictEquals(Property(data, "mode"), JSString("manual"))
                /\ ~StrictEquals(Property(data, "mode"), JSString("automatic"))
    THEN "Invalid mode format"
    ELSE IF ~IsArray(Property(data, "excludedDays"))
    THEN "Invalid excluded days format"
    ELSE ""

\* The file is thrown out: JSON.parse throws, reading a field of null throws, or a
\* check throws.
Throws(f) ==
    \/ f.text # "json"
    \/ f.data.t = "null"
    \/ ValidationError(f.data) # ""

\* setGoal(data.goal); ...; setExcludeHolidays(data.excludeHolidays ?? true)
ImportedConfig(data) ==
    [goal            |-> Property(data, "goal"),
     startDateStr    |-> Property(data, "startDateStr"),
     adjustments     |-> Property(data, "adjustments"),
     mode            |-> Property(data, "mode"),
     excludedDays    |-> Property(data, "excludedDays"),
     excludeHolidays |-> NullishCoalesce(Property(data, "excludeHolidays"), JSBoolean(TRUE))]

\* Variant: the goal is applied as soon as its own check has passed.
ImportOutcome_GoalFirst(cfg, f) ==
    IF f.text # "json" \/ f.data.t = "null" THEN [config |-> cfg, alert |-> "invalid"]
    ELSE IF ValidationError(f.data) = "Invalid goal format"
    THEN [config |-> cfg, alert |-> "invalid"]
    ELSE IF ValidationError(f.data) # ""
    THEN [config |-> [cfg EXCEPT !.goal = Property(f.data, "goal")], alert |-> "invalid"]
    ELSE [config |-> ImportedConfig(f.data), alert |-> "restored"]

\* reader.onload: try { parse; check; set the six fields; alert success } catch { alert }
ImportOutcome(cfg, f) ==
    IF Throws(f)
    THEN [config |-> cfg, alert |-> "invalid"]
    ELSE [config |-> ImportedConfig(f.data), alert |-> "restored"]

\* The App state of a first run, nothing selected, exported or chosen.
AppFirstRun ==
    /\ config = DefaultConfig
    /\ selectedDate = NoDate
    /\ download = NoFile
    /\ file = NoFile
    /\ alert = "none"
    /\ isDragging = FALSE
    /\ dragStart = NoDate
    /\ dragSelection = {}
    /\ dragMode = "work"

(***************************************************************************)
(* The state machine of one call.                                          *)
(***************************************************************************)
\* The state at the call with arguments i.
CallWith(i) ==
    /\ goal = i.goal
    /\ startDate = i.startDate
    /\ adjustments = i.adjustments
    /\ mode = i.mode
    /\ excludedDays = i.excludedDays
    /\ excludeHolidays = i.excludeHolidays
    /\ pc = "call"
    /\ accumulated = 0
    /\ checkDate = NoDate
    /\ daysProcessed = 0
    /\ estimatedEndDate = NoDate
    /\ workDaysToGoal = 0
    /\ workDays = << >>
    /\ result = NoStats
    /\ dayHours = 0
    /\ csv = NoCsv

Init == (\E i \in Inputs : CallWith(i)) /\ AppFirstRun

\* if (!startDate || !isValid(startDate)) return {...}
ReturnNoStart ==
    /\ pc = "call"
    /\ (startDate = NoDate \/ ~isValid(startDate))
    /\ result' = EmptyStats(goal)
    /\ pc' = "done"
    /\ UNCHANGED <<inputs, locals, dayHours, csv, appVars>>

\* let accumulated = 0; const start = startOfDay(startDate); ... let workDaysToGoal = 0
EnterLoop ==
    /\ pc = "call"
    /\ ~(startDate = NoDate \/ ~isValid(startDate))
    /\ accumulated' = 0
    /\ workDays' = << >>
    /\ checkDate' = startOfDay(startDate)
    /\ daysProcessed' = 0
    /\ estimatedEndDate' = NoDate
    /\ workDaysToGoal' = 0
    /\ pc' = "loop"
    /\ UNCHANGED <<inputs, result, dayHours, csv, appVars>>

\* One iteration that reaches checkDate = addDays(checkDate, 1); daysProcessed++
LoopIterate ==
    /\ pc = "loop"
    /\ LoopContinues(daysProcessed)
    /\ DayEffect
    /\ ~AutoStops(mode, accumulated', goal, daysProcessed)
    /\ ~ManualStops(mode, accumulated', goal, HasManualToday, daysProcessed)
    /\ checkDate' = addDays(checkDate, 1)
    /\ daysProcessed' = daysProcessed + 1
    /\ pc' = "loop"
    /\ UNCHANGED <<inputs, result, dayHours, csv, appVars>>

\* One iteration that ends in the automatic-mode break
LoopBreakAutomatic ==
    /\ pc = "loop"
    /\ LoopContinues(daysProcessed)
    /\ DayEffect
    /\ AutoStops(mode, accumulated', goal, daysProcessed)
    /\ pc' = "return"
    /\ UNCHANGED <<inputs, result, checkDate, daysProcessed, dayHours, csv, appVars>>

\* One iteration that ends in the manual-mode break
LoopBreakManual ==
    /\ pc = "loop"
    /\ LoopContinues(daysProcessed)
    /\ DayEffect
    /\ ~AutoStops(mode, accumulated', goal, daysProcessed)
    /\ ManualStops(mode, accumulated', goal, HasManualToday, daysProcessed)
    /\ pc' = "return"
    /\ UNCHANGED <<inputs, result, checkDate, daysProcessed, dayHours, csv, appVars>>

\* The loop condition fails: the safety ceiling is reached
LoopExit ==
    /\ pc = "loop"
    /\ ~LoopContinues(daysProcessed)
    /\ pc' = "return"
    /\ UNCHANGED <<inputs, locals, result, dayHours, csv, appVars>>

\* const progress = ...; return {...}
Return ==
    /\ pc = "return"
    /\ result' = Stats(goal, startOfDay(startDate), accumulated, estimatedEndDate,
                       workDaysToGoal, workDays)
    /\ pc' = "done"
    /\ UNCHANGED <<inputs, locals, dayHours, csv, appVars>>

\* onClick of CSV Table: downloadFile(generateCSV(stats.workDays), ...); the parameter
\* adjustments of generateCSV takes its default {}.
DownloadCSV ==
    /\ pc = "done"
    /\ csv = NoCsv
    /\ csv' = generateCSV(result.workDays, NoAdjustments)
    /\ UNCHANGED <<inputs, locals, pc, result, dayHours, appVars>>

Next ==
    \/ ReturnNoStart
    \/ EnterLoop
    \/ LoopIterate
    \/ LoopBreakAutomatic
    \/ LoopBreakManual
    \/ LoopExit
    \/ Return
    \/ DownloadCSV

Spec == Init /\ [][Next]_vars

\* The call is never suspended: some step is always taken while one is possible.
InitTermination == (\E i \in TerminationInputs : CallWith(i)) /\ AppFirstRun

FairSpec == InitTermination /\ [][Next]_vars /\ WF_vars(Next)

(***************************************************************************)
(* calculateDayHours on its own: one call with arguments drawn from every  *)
(* day of 2026 and a few days around it, with no override, an override on  *)
(* another day or an override of each kind on the day itself, each mode,   *)
(* excluded-weekday array and holiday flag.  The date is checkDate, the    *)
(* other arguments are the variables the loop passes on.                   *)
(***************************************************************************)
HourDates == {Jan01 + k : k \in -3..370}

ExcludedDayChoices == {<<0, 6>>, << >>, <<0, 1, 2, 3, 4, 5, 6>>}

OverridesOf(date) ==
    {NoAdjustments, getDateKey(date + 1) :> Work(0), getDateKey(date) :> Off,
     getDateKey(date) :> Work(-1)}
        \cup {getDateKey(date) :> Work(ot) : ot \in 0..MaxOvertime}

InitHours ==
    /\ checkDate \in HourDates
    /\ adjustments \in OverridesOf(checkDate)
    /\ mode \in {"manual", "automatic"}
    /\ excludedDays \in ExcludedDayChoices
    /\ excludeHolidays \in BOOLEAN
    /\ goal = 0
    /\ startDate = NoDate
    /\ pc = "hours"
    /\ accumulated = 0
    /\ daysProcessed = 0
    /\ estimatedEndDate = NoDate
    /\ workDaysToGoal = 0
    /\ workDays = << >>
    /\ result = NoStats
    /\ dayHours = 0
    /\ csv = NoCsv
    /\ AppFirstRun

\* calculateDayHours(date, adjustments, mode, excludedDays, excludeHolidays)
CalculateDayHours ==
    /\ pc = "hours"
    /\ dayHours' = HoursToday
    /\ pc' = "hours returned"
    /\ UNCHANGED <<inputs, locals, result, csv, appVars>>

NextHours == CalculateDayHours

SpecHours == InitHours /\ [][NextHours]_vars

Modes == {"manual", "automatic"}

(***************************************************************************)
(* The state machine of the App component: the handlers that change the    *)
(* six persisted fields, the Data Backup download and the restore.         *)
(***************************************************************************)
\* The arguments of getInternshipStats at the first render.
FirstRunArgs ==
    [goal |-> 0, startDate |-> NoDate, adjustments |-> NoAdjustments, mode |-> "automatic",
     excludedDays |-> <<0, 6>>, excludeHolidays |-> TRUE]

InitApp == CallWith(FirstRunArgs) /\ AppFirstRun

\* The texts typed into the Target Hours input, with the number each one spells.
NumberTexts == ("8" :> 8)

GoalInputs == {""} \cup DOMAIN NumberTexts

StartDateInputs == {""} \cup DOMAIN DateStrings

\* The weekday buttons pressed: Monday.
ToggleDays == {1}

\* The day cells clicked: Tuesday 2026-01-06.
EditDates == {Jan05 + 1}

\* The texts typed into the Daily Log box.
LogInputs == {<<" ", "a", ",", "b", " ">>, <<" ">>}

\* A backup as Data Backup writes it.
ValidBackup ==
    [goal            |-> JSNumber(8),
     startDateStr    |-> JSString("2026-01-05"),
     adjustments     |-> JSObject(getDateKey(Jan05 + 1) :> Work(1)),
     mode            |-> JSString("manual"),
     excludedDays    |-> JSArray(<<0, 6>>),
     excludeHolidays |-> JSBoolean(FALSE)]

BackupWith(field, value) == JsonFile(JSObject([ValidBackup EXCEPT ![field] = value]))

BackupWithout(field) ==
    JsonFile(JSObject([f \in DOMAIN ValidBackup \ {field} |-> ValidBackup[f]]))

\* The files chosen for Restore Backup: text that is not JSON, JSON that is not a
\* backup object, a valid backup, and backups with one field missing or changed.
BackupFiles ==
    << UnparsableFile,
       JsonFile(JSNull),
       JsonFile(JSArray(<< >>)),
       JsonFile(JSObject(ValidBackup)),
       BackupWithout("excludeHolidays"),
       BackupWithout("goal"),
       BackupWith("goal", JSString("8")),
       BackupWith("goal", JSString("")),
       BackupWith("goal", JSInfinity),
       BackupWith("startDateStr", JSNumber(20260105)),
       BackupWith("adjustments", JSString("none")),
       BackupWith("adjustments", JSNull),
       BackupWith("adjustments", JSArray(<< >>)),
       BackupWith("adjustments", JSObject(getDateKey(Jan05 + 1) :> Work(-1))),
       BackupWith("adjustments",
                  JSObject(getDateKey(Jan05 + 1) :> [status |-> "holiday", overtime |-> 0])),
       BackupWith("mode", JSString("auto")),
       BackupWith("excludedDays", JSString("0,6")),
       BackupWith("excludedDays", JSArray(<<9>>)),
       BackupWith("excludeHolidays", JSString("yes")),
       BackupWith("excludeHolidays", JSNull) >>

\* The App is rendered and no alert() is open.
Interactive == Renders(config) /\ alert = "none"

\* No backup is on its way: the model takes the edits of the fields only then.
NoBackupPending == download = NoFile /\ file = NoFile

\* onChange of Target Hours: setGoal(e.target.value === '' ? '' : Number(e.target.value))
SetGoal(value) ==
    /\ Interactive /\ NoBackupPending
    /\ config' = [config EXCEPT !.goal = IF value = "" THEN JSString("")
                                         ELSE JSNumber(NumberTexts[value])]
    /\ UNCHANGED <<selectedDate, download, file, alert, dragVars, callVars>>

\* onChange of Start Date: setStartDateStr(e.target.value)
SetStartDateStr(value) ==
    /\ Interactive /\ NoBackupPending
    /\ config' = [config EXCEPT !.startDateStr = JSString(value)]
    /\ UNCHANGED <<selectedDate, download, file, alert, dragVars, callVars>>

\* onClick of Exclude / Include holidays: setExcludeHolidays(true | false)
SetExcludeHolidays(value) ==
    /\ Interactive /\ NoBackupPending
    /\ config' = [config EXCEPT !.excludeHolidays = JSBoolean(value)]
    /\ UNCHANGED <<selectedDate, download, file, alert, dragVars, callVars>>

\* onClick of a weekday button: toggleExcludedDay(idx)
ToggleExcludedDay(day) ==
    /\ Interactive /\ NoBackupPending
    /\ config' = [config EXCEPT !.excludedDays =
                     JSArray(toggleExcludedDay(config.excludedDays.v, day))]
    /\ UNCHANGED <<selectedDate, download, file, alert, dragVars, callVars>>

\* onClick of Manual / Automatic: setMode(...)
SetMode(value) ==
    /\ Interactive /\ NoBackupPending
    /\ config' = [config EXCEPT !.mode = JSString(value)]
    /\ UNCHANGED <<selectedDate, download, file, alert, dragVars, callVars>>

\* onClick of a day cell: !isDisabled && setSelectedDate(date)
SelectDay(date) ==
    /\ Interactive /\ NoBackupPending
    /\ ~isDisabled(config, date)
    /\ selectedDate' = date
    /\ UNCHANGED <<config, download, file, alert, dragVars, callVars>>

\* onClick of Minus / Plus in the Customizing panel: updateOvertime(selectedDate, delta)
UpdateOvertime(delta) ==
    /\ Interactive /\ NoBackupPending
    /\ PanelShown(config, selectedDate)
    /\ \E entry \in {OvertimeEntry(CurrentEntry(config, selectedDate), delta)} :
          /\ entry.overtime <= MaxOvertime
          /\ config' = WithEntry(config, selectedDate, entry)
    /\ UNCHANGED <<selectedDate, download, file, alert, dragVars, callVars>>

\* onClick of Save Log (disabled while logInput.trim() is empty): saveLog(selectedDate)
SaveLog(logInput) ==
    /\ Interactive /\ NoBackupPending
    /\ PanelShown(config, selectedDate)
    /\ trim(logInput) # << >>
    /\ config' = WithEntry(config, selectedDate,
                           WithLog(CurrentEntry(config, selectedDate), logInput))
    /\ UNCHANGED <<selectedDate, download, file, alert, dragVars, callVars>>

\* onClick of Delete (shown while the day has a log): deleteLog(selectedDate)
DeleteLog ==
    /\ Interactive /\ NoBackupPending
    /\ PanelShown(config, selectedDate)
    /\ getDayLog(config, selectedDate) # << >>
    /\ config' = WithEntry(config, selectedDate,
                           WithoutLog(config.adjustments.v[getDateKey(selectedDate)]))
    /\ UNCHANGED <<selectedDate, download, file, alert, dragVars, callVars>>

\* onMouseDown of a day cell: handleMouseDown(date)
HandleMouseDown(date) ==
    /\ Interactive /\ NoBackupPending
    /\ startDateMemo(config) # NoDate
    /\ ~(date < startDateMemo(config))
    /\ ~isAfterEnd(config, date)
    /\ isDragging' = TRUE
    /\ dragStart' = date
    /\ dragMode' = IF getDayDisplayHours(config, date) > 0 THEN "off" ELSE "work"
    /\ dragSelection' = {getDateKey(date)}
    /\ UNCHANGED <<config, selectedDate, download, file, alert, callVars>>

\* onMouseEnter of a day cell: handleMouseEnter(date)
HandleMouseEnter(date) ==
    /\ Interactive /\ NoBackupPending
    /\ isDragging /\ dragStart # NoDate /\ startDateMemo(config) # NoDate
    /\ ~(date < startDateMemo(config))
    /\ ~isAfterEnd(config, date)
    /\ dragSelection' = DragRange(dragStart, date)
    /\ UNCHANGED <<config, selectedDate, download, file, alert, isDragging, dragStart,
                   dragMode, callVars>>

\* mouseup on the window: handleMouseUp()
HandleMouseUp ==
    /\ Interactive
    /\ isDragging
    /\ config' = [config EXCEPT !.adjustments =
                     JSObject(Painted(config.adjustments.v, dragSelection, dragMode))]
    /\ isDragging' = FALSE
    /\ dragStart' = NoDate
    /\ dragSelection' = {}
    /\ UNCHANGED <<selectedDate, download, file, alert, dragMode, callVars>>

\* confirmReset: everything but the mode goes back to its default.
ConfirmReset ==
    /\ Interactive /\ file = NoFile
    /\ config' = [DefaultConfig EXCEPT !.mode = config.mode]
    /\ UNCHANGED <<selectedDate, download, file, alert, dragVars, callVars>>

\* onClick of Data Backup: downloadFile(JSON.stringify({...}, null, 2), ...).  The field
\* from records the configuration the file was written from, for the properties.
ExportBackup ==
    /\ Interactive /\ NoBackupPending
    /\ download' = [text |-> "json", data |-> JSONStringify(config).data, from |-> config]
    /\ UNCHANGED <<config, selectedDate, file, alert, dragVars, callVars>>

\* handleImportBackup, onChange of the file input with one of the files at hand:
\* reader.readAsText(file)
ChooseFile(f) ==
    /\ Interactive /\ NoBackupPending
    /\ file' = f
    /\ UNCHANGED <<config, selectedDate, download, alert, dragVars, callVars>>

\* handleImportBackup with the file that Data Backup wrote
ChooseDownload ==
    /\ Interactive /\ file = NoFile
    /\ download # NoFile
    /\ file' = download
    /\ download' = NoFile
    /\ UNCHANGED <<config, selectedDate, alert, dragVars, callVars>>

\* reader.onload
ImportOnLoad ==
    /\ file # NoFile
    /\ \E outcome \in {ImportOutcome(config, file)} :
          /\ config' = outcome.config
          /\ alert' = outcome.alert
    /\ file' = NoFile
    /\ UNCHANGED <<selectedDate, download, dragVars, callVars>>

\* The alert() of the import is closed.
DismissAlert ==
    /\ alert # "none"
    /\ alert' = "none"
    /\ UNCHANGED <<config, selectedDate, download, file, dragVars, callVars>>

NextApp ==
    \/ \E value \in GoalInputs : SetGoal(value)
    \/ \E value \in StartDateInputs : SetStartDateStr(value)
    \/ \E value \in BOOLEAN : SetExcludeHolidays(value)
    \/ \E day \in ToggleDays : ToggleExcludedDay(day)
    \/ \E value \in Modes : SetMode(value)
    \/ \E date \in EditDates : SelectDay(date)
    \/ \E delta \in {-1, 1} : UpdateOvertime(delta)
    \/ \E logInput \in LogInputs : SaveLog(logInput)
    \/ DeleteLog
    \/ \E date \in EditDates : HandleMouseDown(date)
    \/ \E date \in EditDates : HandleMouseEnter(date)
    \/ HandleMouseUp
    \/ ConfirmReset
    \/ ExportBackup
    \/ \E i \in 1..Len(BackupFiles) : ChooseFile(BackupFiles[i])
    \/ ChooseDownload
    \/ ImportOnLoad
    \/ DismissAlert

SpecApp == InitApp /\ [][NextApp]_vars

(***************************************************************************)
(* The App from a first run under the edits of the override map and of the *)
(* rules alone: no backup is written or restored.                          *)
(***************************************************************************)
\* The day cells painted: Tuesday 2026-01-06 and Wednesday 2026-01-07.
DragDates == {Jan05 + 1, Jan05 + 2}

NextEdit ==
    \/ \E value \in GoalInputs : SetGoal(value)
    \/ \E value \in StartDateInputs : SetStartDateStr(value)
    \/ \E value \in BOOLEAN : SetExcludeHolidays(value)
    \/ \E day \in ToggleDays : ToggleExcludedDay(day)
    \/ \E value \in Modes : SetMode(value)
    \/ \E date \in EditDates : SelectDay(date)
    \/ \E delta \in {-1, 1} : UpdateOvertime(delta)
    \/ \E logInput \in LogInputs : SaveLog(logInput)
    \/ DeleteLog
    \/ \E date \in DragDates : HandleMouseDown(date)
    \/ \E date \in DragDates : HandleMouseEnter(date)
    \/ HandleMouseUp

SpecEdit == InitApp /\ [][NextEdit]_vars

(***************************************************************************)
(* Properties.                                                             *)
(***************************************************************************)
StartGiven == startDate # NoDate /\ startDate # InvalidDate

\* The step processes the day checkDate (one iteration of the loop body).
ProcessesDay == pc = "loop" /\ daysProcessed < safetyLimit

\* C1: in automatic mode the work-day list never holds a day later than the
\* goal-crossing day (no day is appended once accumulated >= goal).
C1_WorkDaysEndAtGoal ==
    (mode = "automatic" /\ StartGiven /\ estimatedEndDate # NoDate) =>
        \A i \in 1..Len(workDays) : workDays[i].date <= estimatedEndDate

C3_NoGoalZeroProgressAndRemaining ==
    (pc = "done" /\ goal <= 0) =>
        /\ result.progressPercentage.num = 0
        /\ result.remaining = 0

\* C4 as stated: after any processed day the end date is absent exactly when the
\* accumulated hours are still below the goal, for every goal.
C4_EndDateIffGoalReached ==
    (StartGiven /\ pc \in {"loop", "return"} /\ daysProcessed >= 1) =>
        ((estimatedEndDate = NoDate) <=> (accumulated < goal))

\* C4 amended: for a goal > 0, in both modes the end date is set exactly on the
\* processed day that takes accumulated from below the goal to >= goal, it is
\* that day, it never changes afterwards, and it is absent while accumulated < goal.
C4_EndDateIsFirstCrossing ==
    [][ (StartGiven /\ goal > 0 /\ pc \in {"loop", "return"}) =>
          /\ (estimatedEndDate' = NoDate) <=> (accumulated' < goal)
          /\ (estimatedEndDate' # estimatedEndDate) =>
                /\ ProcessesDay
                /\ estimatedEndDate = NoDate
                /\ accumulated < goal
                /\ estimatedEndDate' = checkDate
          /\ pc' = "done" => result'.estimatedEndDate = estimatedEndDate ]_vars

C4_Witness ==
    /\ pc = "done" /\ goal > 0 /\ StartGiven
    /\ result.estimatedEndDate # NoDate
    /\ result.estimatedEndDate > startDate

\* C5: in automatic mode a day's hours are added only if accumulated < goal before
\* that day; once accumulated >= goal it never changes, and the overshoot over the
\* goal is strictly less than the hours of the crossing day.
C5_AutoAddsOnlyBelowGoal ==
    [][ (mode = "automatic" /\ ProcessesDay) =>
          /\ (accumulated' # accumulated) =>
                (accumulated < goal /\ accumulated' = accumulated + HoursToday)
          /\ (accumulated >= goal) => (accumulated' = accumulated)
          /\ (accumulated < goal /\ accumulated' >= goal) =>
                (accumulated' - goal < HoursToday) ]_vars

C5_Witness ==
    /\ pc = "done" /\ mode = "automatic" /\ goal > 0
    /\ result.accumulatedTowardsGoal > goal

\* The scenario of C6: goal 8, start 2026-02-01, one work override with overtime 2
\* on 2026-02-03, manual mode.
C6_Scenario ==
    /\ mode = "manual" /\ goal = 8 /\ startDate = Feb01
    /\ adjustments = (<<2026, 2, 3>> :> [status |-> "work", overtime |-> 2])

\* C6: in manual mode every processed day with hours > 0 adds its full hours and is
\* appended to workDays, also when accumulated >= goal already; the scenario gives
\* accumulated 10, exceeded, excessHours 2 and the single work day (2026-02-03, 10).
C6_ManualAlwaysAccumulates ==
    [][ /\ (mode = "manual" /\ ProcessesDay /\ HoursToday > 0) =>
              /\ accumulated' = accumulated + HoursToday
              /\ workDays' = Append(workDays, [date |-> checkDate, hours |-> HoursToday])
        /\ (C6_Scenario /\ pc' = "done") =>
              /\ result'.accumulatedTowardsGoal = 10
              /\ result'.exceeded = TRUE
              /\ result'.excessHours = 2
              /\ result'.workDays = << [date |-> Feb01 + 2, hours |-> 10] >> ]_vars

C6_Witness ==
    /\ mode = "manual" /\ pc = "loop" /\ goal > 0
    /\ accumulated > goal
    /\ Len(workDays) >= 2
    /\ workDays[Len(workDays)].date > estimatedEndDate

\* C7: the call returns, and the loop has then processed at most safetyLimit days.
C7_Terminates == <>(pc = "done" /\ daysProcessed <= safetyLimit)

C7_Witness ==
    pc = "done" /\ StartGiven /\ daysProcessed = safetyLimit /\ result.estimatedEndDate = NoDate

\* C8: in manual mode the loop stops before the safety ceiling only when the goal
\* has been reached and the last 365 processed days all had no manual override.
C8_ManualStopsAfterQuietYear ==
    (mode = "manual" /\ pc = "return" /\ daysProcessed < safetyLimit) =>
        /\ accumulated >= goal
        /\ \A d \in (checkDate - (ManualQuietDays - 1))..checkDate :
              d >= startDate /\ ~HasAdjustment(adjustments, getDateKey(d))

\* The grace window of C9, as the code yields it when the goal is crossed on the
\* start date: the break happens in the iteration with daysProcessed = 731.
GraceWindowDays == AutoBufferDays + 1

\* C9: in automatic mode the loop stops a fixed number of days after the
\* goal-crossing day, whatever day the crossing falls on.
C9_FixedGraceWindow ==
    (mode = "automatic" /\ pc = "return" /\ estimatedEndDate # NoDate) =>
        checkDate - estimatedEndDate = GraceWindowDays

\* C10: every returned Stats has accumulatedTowardsGoal >= 0, a progress
\* percentage within [0, 100], and an end date that, when present, is on or after
\* the start date (so that totalCalendarDays >= 1).
C10_StatsInRange ==
    pc = "done" =>
        /\ result.accumulatedTowardsGoal >= 0
        /\ result.progressPercentage.den > 0
        /\ result.progressPercentage.num >= 0
        /\ result.progressPercentage.num <= 100 * result.progressPercentage.den
        /\ result.estimatedEndDate # NoDate =>
              /\ result.estimatedEndDate >= startDate
              /\ result.totalCalendarDays >= 1

C10_Witness ==
    /\ pc = "done" /\ StartGiven
    /\ result.estimatedEndDate # NoDate
    /\ result.totalCalendarDays > 1
    /\ result.progressPercentage.num > 0

(***************************************************************************)
(* calculateDayHours as a function of its arguments.                       *)
(***************************************************************************)
\* The date key of date is listed in the holiday table.
InHolidayTable(date) ==
    \E i \in 1..Len(PH_HOLIDAYS_2026) : PH_HOLIDAYS_2026[i].date = getDateKey(date)

\* Monday = 0 .. Sunday = 6, counted from Monday 2026-01-05.
DaysFromMonday(date) == (date - Jan05) % 7

MondayToFriday(date) == DaysFromMonday(date) < 5

\* The weekday number of date (Sunday = 0) is an element of excl.
WeekdayExcluded(date, excl) ==
    \E i \in 1..Len(excl) : excl[i] = (DaysFromMonday(date) + 1) % 7

\* The hours of a day without override on which the holiday table does not apply.
WeekdayRule(date, m, excl) ==
    IF m = "automatic" /\ MondayToFriday(date) /\ ~WeekdayExcluded(date, excl) THEN 8 ELSE 0

\* The call of calculateDayHours has returned.
HoursReturned == pc = "hours returned"

\* C11: when the override map has an entry for the day, calculateDayHours is 0 if the
\* entry is off and 8 + overtime if it is work (overtime >= 0), whatever the mode,
\* the weekday, the excluded weekdays and the holiday flag.
C11_OverrideDecidesHours ==
    (HoursReturned /\ HasManualToday) =>
        LET adj == adjustments[getDateKey(checkDate)]
        IN  /\ adj.status = "off" => dayHours = 0
            /\ (adj.status = "work" /\ adj.overtime >= 0) => dayHours = 8 + adj.overtime

\* Black Saturday 2026-04-04, worked with overtime in manual mode with holidays
\* excluded and every weekday excluded.
C11_Witness ==
    /\ HoursReturned /\ checkDate = parseISO(<<2026, 4, 4>>)
    /\ mode = "manual" /\ excludeHolidays /\ excludedDays = <<0, 1, 2, 3, 4, 5, 6>>
    /\ adjustments = (<<2026, 4, 4>> :> Work(MaxOvertime))
    /\ dayHours = 8 + MaxOvertime

\* C12: a day without override that is not an excluded holiday has, in automatic
\* mode, 8 hours when it is Monday to Friday and not in excludedDays and 0 hours
\* otherwise (Saturday and Sunday also when not excluded); in manual mode 0 hours.
C12_WeekdayRule ==
    (HoursReturned /\ ~HasManualToday /\ ~(excludeHolidays /\ InHolidayTable(checkDate))) =>
        dayHours = WeekdayRule(checkDate, mode, excludedDays)

\* Saturday 2026-01-10 in automatic mode with no weekday excluded: 0 hours.
C12_Witness ==
    /\ HoursReturned /\ checkDate = Jan05 + 5
    /\ mode = "automatic" /\ excludedDays = << >> /\ excludeHolidays
    /\ adjustments = NoAdjustments
    /\ dayHours = 0

\* C13: a day of the holiday table without override has 0 hours in both modes when
\* excludeHolidays is true; when excludeHolidays is false the table has no effect,
\* and a day that is not in the table is never treated as a holiday.
C13_HolidayRule ==
    (HoursReturned /\ ~HasManualToday) =>
        /\ (excludeHolidays /\ InHolidayTable(checkDate)) => dayHours = 0
        /\ ~excludeHolidays => dayHours = WeekdayRule(checkDate, mode, excludedDays)
        /\ ~InHolidayTable(checkDate) =>
               /\ ~isHoliday(checkDate).isHoliday
               /\ dayHours = WeekdayRule(checkDate, mode, excludedDays)

\* Chinese New Year (Tuesday 2026-02-17, a special holiday) in automatic mode with
\* holidays excluded and no weekday excluded: 0 hours.
C13_Witness ==
    /\ HoursReturned /\ checkDate = parseISO(<<2026, 2, 17>>)
    /\ mode = "automatic" /\ excludeHolidays /\ excludedDays = << >>
    /\ adjustments = NoAdjustments
    /\ dayHours = 0

(***************************************************************************)
(* The derived fields of the returned Stats.                               *)
(***************************************************************************)
\* C14: for every run with a start date, accumulatedTowardsGoal + remaining -
\* excessHours = goal, exceeded holds exactly when accumulatedTowardsGoal > goal,
\* excessHours is 0 when not exceeded, and remaining and excessHours are never both
\* positive.
C14_DerivedFields ==
    (pc = "done" /\ StartGiven) =>
        /\ result.accumulatedTowardsGoal + result.remaining - result.excessHours = goal
        /\ result.exceeded <=> (result.accumulatedTowardsGoal > goal)
        /\ ~result.exceeded => result.excessHours = 0
        /\ ~(result.remaining > 0 /\ result.excessHours > 0)

\* A run that exceeded its goal and a run that fell short of it have returned.
C14_Witness ==
    /\ pc = "done" /\ StartGiven
    /\ \/ result.exceeded /\ result.excessHours > 0
       \/ result.remaining > 0 /\ result.accumulatedTowardsGoal > 0

\* The n-th Monday-to-Friday day on or after from (n >= 1).
RECURSIVE NthWeekday(_, _)
NthWeekday(from, n) ==
    IF MondayToFriday(from)
    THEN IF n = 1 THEN from ELSE NthWeekday(from + 1, n - 1)
    ELSE NthWeekday(from + 1, n)

\* C15: in automatic mode with Sunday and Saturday excluded, no overrides and no
\* holiday in range, a goal of 8 * n hours (n >= 1) is reached on the n-th
\* Monday-to-Friday day on or after the start date, with workDaysCount = n and
\* totalCalendarDays the inclusive span from the start to that day; goal 40 from
\* Monday 2026-01-05 ends on Friday 2026-01-09 with workDaysCount 5 and
\* totalCalendarDays 5.
C15_WeekdaysToGoal ==
    (/\ pc = "done" /\ StartGiven /\ mode = "automatic" /\ excludedDays = <<0, 6>>
     /\ adjustments = NoAdjustments /\ goal >= 8 /\ goal % 8 = 0
     /\ \A d \in startDate..NthWeekday(startDate, goal \div 8) : ~InHolidayTable(d))
    =>  LET n      == goal \div 8
            endDay == NthWeekday(startDate, n)
        IN  /\ result.estimatedEndDate = endDay
            /\ result.workDaysCount = n
            /\ result.totalCalendarDays = endDay - startDate + 1
            /\ (goal = 40 /\ startDate = parseISO(<<2026, 1, 5>>)) =>
                   /\ result.estimatedEndDate = parseISO(<<2026, 1, 9>>)
                   /\ result.estimatedEndDateStr
                          = [month |-> "January", day |-> 9, suffix |-> "th", year |-> 2026]
                   /\ result.workDaysCount = 5
                   /\ result.totalCalendarDays = 5

\* The run with goal 40 from Monday 2026-01-05 has returned.
C15_Witness ==
    /\ pc = "done" /\ mode = "automatic" /\ excludedDays = <<0, 6>>
    /\ adjustments = NoAdjustments /\ excludeHolidays
    /\ goal = 40 /\ startDate = parseISO(<<2026, 1, 5>>)
    /\ result.workDaysCount = 5

(***************************************************************************)
(* The CSV report.                                                         *)
(***************************************************************************)
\* The text of a CSV field as a reader of the file takes it: the quotes around a
\* quoted field removed and its doubled quotes undone.
RECURSIVE UndoubleQuotes(_)
UndoubleQuotes(str) ==
    IF Len(str) >= 2 /\ str[1] = "\"" /\ str[2] = "\""
    THEN <<"\"">> \o UndoubleQuotes(SubSeq(str, 3, Len(str)))
    ELSE IF str = << >> THEN << >>
    ELSE <<Head(str)>> \o UndoubleQuotes(Tail(str))

CsvFieldText(field) ==
    IF Len(field) >= 2 /\ field[1] = "\"" /\ field[Len(field)] = "\""
    THEN UndoubleQuotes(SubSeq(field, 2, Len(field) - 1))
    ELSE field

\* C19: in the downloaded CSV the row of every work day of stats.workDays whose
\* override has a saved log carries that log in its Daily Log column.
C19_ReportCarriesLogs ==
    (pc = "done" /\ csv # NoCsv) =>
        \A i \in 1..Len(result.workDays) :
            LET log == LogOf(adjustments, getDateKey(result.workDays[i].date))
            IN  log # << >> =>
                    /\ i \in DOMAIN csv.rows
                    /\ csv.rows[i].dateStr = getDateKey(result.workDays[i].date)
                    /\ CsvFieldText(csv.rows[i].escapedLog) = log

(***************************************************************************)
(* Backup and restore.                                                     *)
(***************************************************************************)
\* The step is the reader.onload of handleImportBackup.
ImportStep == file # NoFile /\ file' = NoFile

\* The shape of a backup: goal a number or '', startDateStr a string, adjustments a map
\* of entries with status work or off and overtime >= 0, mode manual or automatic,
\* excludedDays an array of 0..6, excludeHolidays absent or a boolean.
WellShapedBackup(f) ==
    /\ f.text = "json"
    /\ f.data.t = "object"
    /\ \A field \in {"goal", "startDateStr", "adjustments", "mode", "excludedDays"} :
           field \in DOMAIN f.data.v
    /\ f.data.v.goal.t \in {"number", "infinity"}
           \/ (f.data.v.goal.t = "string" /\ f.data.v.goal.v = "")
    /\ f.data.v.startDateStr.t = "string"
    /\ f.data.v.adjustments.t = "object"
    /\ \A key \in DOMAIN f.data.v.adjustments.v :
           /\ f.data.v.adjustments.v[key].status \in {"work", "off"}
           /\ f.data.v.adjustments.v[key].overtime >= 0
    /\ f.data.v.mode.t = "string" /\ f.data.v.mode.v \in Modes
    /\ f.data.v.excludedDays.t = "array"
    /\ \A i \in 1..Len(f.data.v.excludedDays.v) : f.data.v.excludedDays.v[i] \in 0..6
    /\ "excludeHolidays" \in DOMAIN f.data.v => f.data.v.excludeHolidays.t = "boolean"

\* C16: handleImportBackup rejects the whole file whenever a field of the backup has
\* the wrong shape (goal, startDateStr, adjustments and its entries, mode,
\* excludedDays and its values, excludeHolidays when present).
C16_ImportRejectsWrongShape ==
    [][(ImportStep /\ ~WellShapedBackup(file)) => (alert' = "invalid" /\ config' = config)]_vars

\* C17: when handleImportBackup rejects a file (text that is not JSON, or a failed
\* field check), none of the six fields of the configuration changes.
C17_RejectedImportChangesNothing ==
    [][ImportStep =>
          /\ alert' = "invalid" => config' = config
          /\ (file.text # "json" \/ ValidationError(file.data) # "") => alert' = "invalid"]_vars

\* A file whose mode check fails (its goal and start date pass) was rejected while
\* the configuration differed from it in every field.
C17_Witness ==
    /\ alert = "invalid" /\ file = NoFile
    /\ config.goal = JSString("") /\ config.startDateStr = JSString("2026-01-05")
    /\ config.mode = JSString("automatic")
    /\ config.adjustments.v # NoAdjustments
    /\ config.excludedDays = JSArray(<<0, 6, 1>>)

\* C18: restoring the file that Data Backup wrote yields the configuration it was
\* written from, in all six fields, for every configuration reachable through the UI.
C18_BackupRoundTrip ==
    [][(ImportStep /\ "from" \in DOMAIN file) =>
          (alert' = "restored" /\ config' = file.from)]_vars

(***************************************************************************)
(* The work-day list against the counters of the returned Stats.           *)
(***************************************************************************)
RECURSIVE SumHours(_)
SumHours(wds) == IF wds = << >> THEN 0 ELSE Head(wds).hours + SumHours(Tail(wds))

\* C22: in both modes the hours of the entries of the returned workDays list sum
\* to accumulatedTowardsGoal.
C22_WorkDaysSumToAccumulated ==
    (pc = "done" /\ StartGiven) => SumHours(result.workDays) = result.accumulatedTowardsGoal

\* C23: whenever the projected end date is present, workDaysCount is the number of
\* workDays entries dated on or before it, in both modes, also when the crossing day
\* overshoots the goal.
C23_CountIsWorkDaysToEnd ==
    (pc = "done" /\ StartGiven /\ result.estimatedEndDate # NoDate) =>
        result.workDaysCount
            = Cardinality({i \in 1..Len(result.workDays) :
                              result.workDays[i].date <= result.estimatedEndDate})

(***************************************************************************)
(* Raising one day's hours: the call of the run against the call with one  *)
(* override changed.                                                       *)
(***************************************************************************)
\* The locals of the loop with the override map adj and the other arguments of the
\* run, from locals n before the body of day, once the end date is assigned or the
\* body of last is done, whichever is first (the loop assigns the end date once).
RECURSIVE LocalsAfterDays(_, _, _, _)
LocalsAfterDays(adj, day, last, n) ==
    IF day > last \/ n.estimatedEndDate # NoDate THEN n
    ELSE LocalsAfterDays(adj, day + 1, last,
                         AccumulateDay(mode, goal, day,
                                       calculateDayHours(day, adj, mode, excludedDays,
                                                         excludeHolidays),
                                       n.accumulated, n.workDays, n.workDaysToGoal,
                                       n.estimatedEndDate))

\* The same over a long range, taken in stretches of StretchDays days so that the
\* evaluation stays shallow.
StretchDays == 32

RECURSIVE LocalsAfter(_, _, _, _)
LocalsAfter(adj, day, last, n) ==
    IF day > last \/ n.estimatedEndDate # NoDate THEN n
    ELSE LET stretchEnd == IF day + StretchDays - 1 < last THEN day + StretchDays - 1
                           ELSE last
         IN  LocalsAfter(adj, stretchEnd + 1, last, LocalsAfterDays(adj, day, stretchEnd, n))

\* The entries that raise the hours of date: an off day turned into a work day (keeping
\* the overtime of its entry), or overtime added to the day.
RaisedEntries(date) ==
    LET key == getDateKey(date)
        h   == calculateDayHours(date, adjustments, mode, excludedDays, excludeHolidays)
    IN  IF HasAdjustment(adjustments, key)
        THEN LET e == adjustments[key]
             IN  (IF e.status = "off" THEN {[e EXCEPT !.status = "work"]} ELSE {})
                 \cup {[e EXCEPT !.status = "work", !.overtime = @ + k] : k \in 1..MaxOvertime}
        ELSE (IF h = 0 THEN {Work(0)} ELSE {})
             \cup {Work(k) : k \in 1..MaxOvertime}

\* The days whose hours are raised: the first week of the run and the days that carry
\* an override.
RaisedDates ==
    {startDate + k : k \in 0..6}
        \cup {d \in startDate..result.estimatedEndDate : HasAdjustment(adjustments, getDateKey(d))}

\* The projected end date of the call with the entry e for date, where the run's own
\* call has the end date result.estimatedEndDate: the loop assigns the end date once,
\* so it is on or before that date exactly when the days up to it assign it.
RaisedEndDate(date, e) ==
    LocalsAfter((getDateKey(date) :> e) @@ adjustments, startDate, result.estimatedEndDate,
                Locals(0, << >>, 0, NoDate)).estimatedEndDate

\* C26: with every other argument fixed, turning an off day into a work day or adding
\* overtime to a day never makes a present projected end date absent and never makes
\* it later.
C26_RaisingHoursNeverDelays ==
    (pc = "done" /\ StartGiven /\ result.estimatedEndDate # NoDate) =>
        \A date \in RaisedDates : \A e \in RaisedEntries(date) :
            /\ RaisedEndDate(date, e) # NoDate
            /\ RaisedEndDate(date, e) <= result.estimatedEndDate

\* A run whose end date moves to an earlier day when an off day is turned into a work
\* day: the goal of one day from the holiday 2026-01-01, which then ends on that day.
C26_Witness ==
    /\ pc = "done" /\ StartGiven /\ result.estimatedEndDate # NoDate
    /\ startDate = Jan01 /\ excludeHolidays /\ goal = BaseHours
    /\ calculateDayHours(Jan01, adjustments, mode, excludedDays, excludeHolidays) = 0
    /\ \E e \in RaisedEntries(Jan01) :
          /\ e.overtime = 0
          /\ RaisedEndDate(Jan01, e) = Jan01
          /\ RaisedEndDate(Jan01, e) < result.estimatedEndDate

(***************************************************************************)
(* The override map under the edits of the App.                            *)
(***************************************************************************)
\* The dates whose hours are looked at: from New Year's Day over two weekends.
DisplayedDates == {Jan05 + k : k \in -4..8}

MouseUpStep == isDragging /\ ~isDragging'

\* C24: handleMouseUp changes only the status of the selected days: a selected day
\* that has an override keeps its overtime and its log, and the overrides of the days
\* that are not selected are unchanged.
C24_PaintKeepsOvertimeAndLog ==
    [][MouseUpStep =>
          \A key \in DOMAIN config.adjustments.v :
              IF key \in dragSelection
              THEN /\ config'.adjustments.v[key].overtime = config.adjustments.v[key].overtime
                   /\ LogOf(config'.adjustments.v, key) = LogOf(config.adjustments.v, key)
              ELSE config'.adjustments.v[key] = config.adjustments.v[key]]_vars

\* C25: after confirmReset the stored configuration is the first-run default: empty
\* goal, empty start date, no overrides, excluded days [0, 6], holidays excluded,
\* mode automatic.
C25_ResetRestoresDefaults == [][ConfirmReset => config' = DefaultConfig]_vars

====
